---- MODULE Spec2Model ----
(***************************************************************************)
(* RequestSpendPermissionAction (mini-app-full-demo,                       *)
(* src/components/actions/request-spend-permission.tsx): the component's   *)
(* React state, the wagmi hooks it reads, its two effects, its input       *)
(* handlers and handleRequest with the promise it awaits.                  *)
(*                                                                         *)
(* Text that the code parses (the chain-ID, allowance and period fields)   *)
(* is a sequence of one-character strings, so that Number(), BigInt() and  *)
(* String() are computed character by character.  Text that is only        *)
(* carried around (addresses, messages, the stringified response) is a     *)
(* TLA+ string.  A nullable string is <<>> (null) or <<s>>.                *)
(*                                                                         *)
(* The spender and token fields are strings that handleRequest passes on   *)
(* unread and that no condition tests; they are left out.  A click, a      *)
(* wallet event with the effects it triggers, and a promise settlement     *)
(* with the state updates of its continuation are each one step: React     *)
(* commits the updates of one event or one continuation in one render.     *)
(***************************************************************************)
EXTENDS Integers, Sequences, FiniteSets, TLC

VARIABLES
    address,            \* useAccount().address: a string or Undefined
    isConnected,        \* useAccount().isConnected
    connectedChainId,   \* useChainId()
    account,            \* useState: the account field
    chainId,            \* useState: the chain-ID field (characters)
    allowance,          \* useState: the allowance field (characters)
    periodInDays,       \* useState: the period field (characters)
    permission,         \* useState<string | null>
    error,              \* useState<string | null>
    loading,            \* useState(false)
    inflight,           \* arguments of the requestSpendPermission calls not yet settled
    nClicks,            \* history: clicks the button accepted (handleRequest runs)
    nCalls,             \* history: requestSpendPermission calls issued
    outcome,            \* history: how the most recent run of handleRequest went
    lastAddress,        \* history: most recent non-empty address the wallet reported, or ""
    lastChainId,        \* history: most recent non-zero chain id the wallet reported, or 0
    accountEdited,      \* history: the user typed in the account field since it was last set from the wallet
    chainIdEdited       \* history: the user typed in the chain-ID field since it was last set from the wallet

wallet  == <<address, isConnected, connectedChainId>>
form    == <<account, chainId, allowance, periodInDays>>
request == <<permission, error, loading, inflight>>
history == <<nClicks, nCalls, outcome, lastAddress, lastChainId, accountEdited, chainIdEdited>>
vars    == <<wallet, form, request, history>>

-----------------------------------------------------------------------------
(* Bounds and program constants *)

MaxClicks == 2          \* accepted clicks explored in one run

base_id == 8453         \* viem/chains base.id

Undefined == "<undefined>"
Null == <<>>
Some(s) == <<s>>

DEFAULT_ALLOWANCE == <<"1","0","0","0","0","0","0">>
DEFAULT_PERIOD == <<"3","0">>
FAILED_MESSAGE == "Failed to request spend permission"

-----------------------------------------------------------------------------
(* JavaScript values and conversions *)

\* JS truthiness of a string | undefined
TruthyString(s) == s # Undefined /\ s # ""

\* JS truthiness of a string | null held in React state ({x && ...})
TruthyOption(o) == o # Null /\ o[1] # ""

\* address ?? ""
OrEmpty(a) == IF a = Undefined THEN "" ELSE a

Digits == <<"0","1","2","3","4","5","6","7","8","9">>
IsDigit(c) == \E i \in 1..10 : Digits[i] = c
DigitValue(c) == (CHOOSE i \in 1..10 : Digits[i] = c) - 1
IsWhiteSpace(c) == c \in {" ", "\t", "\n"}

RECURSIVE TrimLeft(_)
TrimLeft(s) == IF s # <<>> /\ IsWhiteSpace(Head(s)) THEN TrimLeft(Tail(s)) ELSE s

RECURSIVE TrimRight(_)
TrimRight(s) ==
    IF s # <<>> /\ IsWhiteSpace(s[Len(s)]) THEN TrimRight(SubSeq(s, 1, Len(s) - 1)) ELSE s

Trim(s) == TrimRight(TrimLeft(s))

AllDigits(s) == \A i \in 1..Len(s) : IsDigit(s[i])

RECURSIVE DigitsValue(_)
DigitsValue(s) ==
    IF s = <<>> THEN 0 ELSE 10 * DigitsValue(SubSeq(s, 1, Len(s) - 1)) + DigitValue(s[Len(s)])

RECURSIVE Pow10(_)
Pow10(n) == IF n = 0 THEN 1 ELSE 10 * Pow10(n - 1)

\* A JS number: NaN, or the decimal fraction num / den (den a power of ten).
NaN == [kind |-> "NaN", num |-> 0, den |-> 1]
RECURSIVE Normal(_, _)
Normal(n, d) ==
    IF d > 1 /\ n % 10 = 0 THEN Normal(n \div 10, d \div 10)
    ELSE [kind |-> "num", num |-> n, den |-> d]
Num(n) == Normal(n, 1)

\* JS truthiness of a number: neither NaN nor (+/-)0
TruthyNumber(v) == v.kind = "num" /\ v.num # 0

\* Position of the first "." in s, or 0
DotAt(s) == IF \E i \in 1..Len(s) : s[i] = "." THEN CHOOSE i \in 1..Len(s) : s[i] = "." /\ \A j \in 1..(i - 1) : s[j] # "." ELSE 0

\* StrUnsignedDecimalLiteral without exponent: digits, digits "." digits?, "." digits
UnsignedDecimal(s) ==
    LET d == DotAt(s) IN
    IF d = 0 THEN
        IF s # <<>> /\ AllDigits(s) THEN Num(DigitsValue(s)) ELSE NaN
    ELSE
        LET ip == SubSeq(s, 1, d - 1)
            fp == SubSeq(s, d + 1, Len(s))
        IN  IF AllDigits(ip) /\ AllDigits(fp) /\ (ip # <<>> \/ fp # <<>>)
            THEN Normal(DigitsValue(ip) * Pow10(Len(fp)) + DigitsValue(fp), Pow10(Len(fp)))
            ELSE NaN

Negate(v) == IF v.kind = "NaN" THEN NaN ELSE [v EXCEPT !.num = 0 - v.num]

\* Number(string): StringToNumber of ECMAScript on text without exponent,
\* Infinity or 0x/0o/0b prefix (none of the sampled texts has one).
ToNumber(s) ==
    LET t == Trim(s) IN
    IF t = <<>> THEN Num(0)
    ELSE IF Head(t) = "-" THEN Negate(UnsignedDecimal(Tail(t)))
    ELSE IF Head(t) = "+" THEN UnsignedDecimal(Tail(t))
    ELSE UnsignedDecimal(t)

\* Result of BigInt(string): a value, or the SyntaxError it throws
SyntaxError == [ok |-> FALSE, value |-> 0]
BigIntOk(n) == [ok |-> TRUE, value |-> n]

\* BigInt(string): StringToBigInt of ECMAScript on text without 0x/0o/0b prefix
ToBigInt(s) ==
    LET t == Trim(s) IN
    IF t = <<>> THEN BigIntOk(0)
    ELSE IF Head(t) = "-" THEN
        IF Tail(t) # <<>> /\ AllDigits(Tail(t)) THEN BigIntOk(0 - DigitsValue(Tail(t))) ELSE SyntaxError
    ELSE IF Head(t) = "+" THEN
        IF Tail(t) # <<>> /\ AllDigits(Tail(t)) THEN BigIntOk(DigitsValue(Tail(t))) ELSE SyntaxError
    ELSE IF AllDigits(t) THEN BigIntOk(DigitsValue(t)) ELSE SyntaxError

RECURSIVE Join(_)
Join(cs) == IF cs = <<>> THEN "" ELSE Head(cs) \o Join(Tail(cs))

\* message of the SyntaxError BigInt(s) throws
SyntaxErrorMessage(s) == "Cannot convert " \o Join(s) \o " to a BigInt"

\* String(n) for a non-negative integer n
RECURSIVE NatToString(_)
NatToString(n) ==
    IF n < 10 THEN <<Digits[n + 1]>> ELSE Append(NatToString(n \div 10), Digits[(n % 10) + 1])

\* mutant of Stringify: JSON.stringify(response)
StringifyCompact(r) ==
    "{\"signature\":\"" \o r.signature \o "\",\"chainId\":" \o Join(NatToString(r.chainId)) \o "}"

\* JSON.stringify(response, null, 2) of a SpendPermission-shaped response
Stringify(r) ==
    "{\n  \"signature\": \"" \o r.signature \o "\",\n  \"chainId\": " \o Join(NatToString(r.chainId)) \o "\n}"

-----------------------------------------------------------------------------
(* The environment: what the wallet, the user and the SDK can supply *)

Addresses == {"0xA11ce", "0xB0b"}
ChainIds == {0, 1, base_id}

\* what the user types in the main specification
AccountInputs == {"", "0xCafe"}
ChainIdInputs == {<<>>, <<"5">>}
AllowanceInputs == {<<>>, <<"a","b","c">>}
PeriodInputs == {<<>>}

\* what requestSpendPermission resolves with (a SpendPermission) or rejects with
Responses == {[signature |-> "0x1b", chainId |-> base_id], [signature |-> "0x1c", chainId |-> 1]}
Rejections ==
    { [isError |-> TRUE,  message |-> "User rejected the request"],
      [isError |-> TRUE,  message |-> ""],
      [isError |-> FALSE, message |-> "denied"] }

-----------------------------------------------------------------------------
(* The component *)

\* mutant of ParsedChainId: Number(chainId) without "|| base.id"
ParsedChainIdNoFallback(s) == ToNumber(s)

\* l.54
ParsedChainId(s) == LET n == ToNumber(s) IN IF TruthyNumber(n) THEN n ELSE Num(base_id)

\* mutant of ParsedAllowance: text BigInt refuses becomes 0n instead of throwing
ParsedAllowanceLenient(s) == IF s # <<>> /\ ToBigInt(s).ok THEN ToBigInt(s) ELSE BigIntOk(0)

\* l.55
ParsedAllowance(s) == IF s # <<>> THEN ToBigInt(s) ELSE BigIntOk(0)

\* l.56
ParsedPeriod(s) == LET n == ToNumber(s) IN IF TruthyNumber(n) THEN n ELSE Num(0)

\* l.70
CatchMessage(err) == IF err.isError THEN err.message ELSE FAILED_MESSAGE

\* mutant of ButtonDisabled: disabled={!isConnected || !account}
ButtonDisabledNoLoading == ~isConnected \/ ~TruthyString(account)

\* mutant of ButtonDisabled: disabled={!isConnected || loading}
ButtonDisabledNoAccount == ~isConnected \/ loading

\* l.189: disabled={!isConnected || loading || !account}
ButtonDisabled == ~isConnected \/ loading \/ ~TruthyString(account)

\* l.171 and l.180: the panels the render shows
PermissionShown == TruthyOption(permission)
ErrorShown == TruthyOption(error)

\* history: kind is "none", "pending", "threw", "fulfilled" or "rejected";
\* value is what the promise settled with (or the text BigInt refused)
Outcome(k, v) == [kind |-> k, value |-> v]

\* l.25, l.28: the initial state of the two fields that read the hooks
InitialAccount(a) == OrEmpty(a)
InitialChainId(c) == NatToString(IF c # 0 THEN c ELSE base_id)

\* mutant of AddressEffect: setAccount(address ?? "") without the if
AddressEffectUnguarded(a) == IF a # address THEN OrEmpty(a) ELSE account

\* l.36-40: what the address effect leaves in the account field when the hook
\* goes from address to a
AddressEffect(a) == IF a # address /\ TruthyString(a) THEN a ELSE account

\* l.42-46: what the chain effect leaves in the chain-ID field when the hook
\* goes from connectedChainId to c
ChainEffect(c) == IF c # connectedChainId /\ c # 0 THEN NatToString(c) ELSE chainId

Init ==
    /\ address \in Addresses \cup {Undefined}
    /\ isConnected \in BOOLEAN
    /\ isConnected => address # Undefined
    /\ connectedChainId \in ChainIds
    /\ account = InitialAccount(address)
    /\ chainId = InitialChainId(connectedChainId)
    /\ allowance = DEFAULT_ALLOWANCE
    /\ periodInDays = DEFAULT_PERIOD
    /\ permission = Null
    /\ error = Null
    /\ loading = FALSE
    /\ inflight = <<>>
    /\ nClicks = 0
    /\ nCalls = 0
    /\ outcome = Outcome("none", Null)
    /\ lastAddress = OrEmpty(address)
    /\ lastChainId = connectedChainId
    /\ accountEdited = FALSE
    /\ chainIdEdited = FALSE

\* A render in which the hooks return (a, conn, c), and the effects that follow it
WalletUpdate(a, conn, c) ==
    /\ address' = a
    /\ isConnected' = conn
    /\ connectedChainId' = c
    /\ account' = AddressEffect(a)
    /\ chainId' = ChainEffect(c)
    /\ lastAddress' = IF TruthyString(a) THEN a ELSE lastAddress
    /\ lastChainId' = IF c # 0 THEN c ELSE lastChainId
    /\ accountEdited' = IF a # address /\ TruthyString(a) THEN FALSE ELSE accountEdited
    /\ chainIdEdited' = IF c # connectedChainId /\ c # 0 THEN FALSE ELSE chainIdEdited
    /\ UNCHANGED <<allowance, periodInDays, request, nClicks, nCalls, outcome>>

\* wagmi: status "connected" (also an account switch)
WalletConnected(a) ==
    /\ ~(isConnected /\ address = a)
    /\ WalletUpdate(a, TRUE, connectedChainId)

\* wagmi: status "disconnected"
WalletDisconnected ==
    /\ address # Undefined
    /\ WalletUpdate(Undefined, FALSE, connectedChainId)

\* wagmi: status "reconnecting": the address is kept, isConnected is false
WalletReconnecting ==
    /\ isConnected
    /\ WalletUpdate(address, FALSE, connectedChainId)

\* wagmi: the chain changes
ChainChanged(c) ==
    /\ c # connectedChainId
    /\ WalletUpdate(address, isConnected, c)

\* l.93
SetAccount(v) ==
    /\ account' = v
    /\ accountEdited' = TRUE
    /\ UNCHANGED <<wallet, chainId, allowance, periodInDays, request,
                   nClicks, nCalls, outcome, lastAddress, lastChainId, chainIdEdited>>

\* l.131
SetChainId(v) ==
    /\ chainId' = v
    /\ chainIdEdited' = TRUE
    /\ UNCHANGED <<wallet, account, allowance, periodInDays, request,
                   nClicks, nCalls, outcome, lastAddress, lastChainId, accountEdited>>

\* l.161
SetAllowance(v) ==
    /\ allowance' = v
    /\ UNCHANGED <<wallet, account, chainId, periodInDays, request, history>>

\* l.145
SetPeriodInDays(v) ==
    /\ periodInDays' = v
    /\ UNCHANGED <<wallet, account, chainId, allowance, request, history>>

\* l.58-66: the argument object
Arguments ==
    [ account      |-> account,
      chainId      |-> ParsedChainId(chainId),
      allowance    |-> ParsedAllowance(allowance).value,
      periodInDays |-> ParsedPeriod(periodInDays) ]

\* mutant of HandleRequest: setError(null) is missing
HandleRequestKeepsError ==
    /\ nClicks < MaxClicks
    /\ nClicks' = nClicks + 1
    /\ permission' = Null
    /\ IF ParsedAllowance(allowance).ok
       THEN /\ loading' = TRUE
            /\ error' = error
            /\ inflight' = Append(inflight, Arguments)
            /\ nCalls' = nCalls + 1
            /\ outcome' = Outcome("pending", Null)
       ELSE /\ loading' = FALSE
            /\ error' = Some(CatchMessage([isError |-> TRUE, message |-> SyntaxErrorMessage(allowance)]))
            /\ outcome' = Outcome("threw", allowance)
            /\ UNCHANGED <<inflight, nCalls>>
    /\ UNCHANGED <<wallet, form, lastAddress, lastChainId, accountEdited, chainIdEdited>>

\* l.48-66 up to the await; when BigInt throws, l.69-74 run in the same turn
HandleRequest ==
    /\ nClicks < MaxClicks
    /\ nClicks' = nClicks + 1
    /\ permission' = Null
    /\ IF ParsedAllowance(allowance).ok
       THEN /\ loading' = TRUE
            /\ error' = Null
            /\ inflight' = Append(inflight, Arguments)
            /\ nCalls' = nCalls + 1
            /\ outcome' = Outcome("pending", Null)
       ELSE /\ loading' = FALSE
            /\ error' = Some(CatchMessage([isError |-> TRUE, message |-> SyntaxErrorMessage(allowance)]))
            /\ outcome' = Outcome("threw", allowance)
            /\ UNCHANGED <<inflight, nCalls>>
    /\ UNCHANGED <<wallet, form, lastAddress, lastChainId, accountEdited, chainIdEdited>>

\* l.189: a click on the button; a disabled button delivers no click
Click ==
    IF ButtonDisabled THEN UNCHANGED vars ELSE HandleRequest

Remove(s, i) == SubSeq(s, 1, i - 1) \o SubSeq(s, i + 1, Len(s))

\* l.58, l.68, l.72-74: call i fulfils with r
Fulfil(i, r) ==
    /\ i \in 1..Len(inflight)
    /\ inflight' = Remove(inflight, i)
    /\ permission' = Some(Stringify(r))
    /\ loading' = FALSE
    /\ outcome' = Outcome("fulfilled", r)
    /\ UNCHANGED <<wallet, form, error, nClicks, nCalls, lastAddress, lastChainId,
                   accountEdited, chainIdEdited>>

\* mutant of Reject: the catch block calls requestSpendPermission again
RejectRetry(i, err) ==
    /\ i \in 1..Len(inflight)
    /\ inflight' = Append(Remove(inflight, i), inflight[i])
    /\ nCalls' = nCalls + 1
    /\ UNCHANGED <<wallet, form, permission, error, loading, nClicks, outcome,
                   lastAddress, lastChainId, accountEdited, chainIdEdited>>

\* mutant of Reject: setLoading(false) sits at the end of the try block, not in finally
RejectNoFinally(i, err) ==
    /\ i \in 1..Len(inflight)
    /\ inflight' = Remove(inflight, i)
    /\ error' = Some(CatchMessage(err))
    /\ outcome' = Outcome("rejected", err)
    /\ UNCHANGED <<wallet, form, permission, loading, nClicks, nCalls, lastAddress,
                   lastChainId, accountEdited, chainIdEdited>>

\* l.58, l.69-74: call i rejects with err
Reject(i, err) ==
    /\ i \in 1..Len(inflight)
    /\ inflight' = Remove(inflight, i)
    /\ error' = Some(CatchMessage(err))
    /\ loading' = FALSE
    /\ outcome' = Outcome("rejected", err)
    /\ UNCHANGED <<wallet, form, permission, nClicks, nCalls, lastAddress, lastChainId,
                   accountEdited, chainIdEdited>>

Settle == \E i \in 1..Len(inflight) :
    \/ \E r \in Responses : Fulfil(i, r)
    \/ \E err \in Rejections : Reject(i, err)

Edit ==
    \/ \E v \in AccountInputs : SetAccount(v)
    \/ \E v \in ChainIdInputs : SetChainId(v)
    \/ \E v \in AllowanceInputs : SetAllowance(v)
    \/ \E v \in PeriodInputs : SetPeriodInDays(v)

WalletEvent ==
    \/ \E a \in Addresses : WalletConnected(a)
    \/ WalletDisconnected
    \/ WalletReconnecting
    \/ \E c \in ChainIds : ChainChanged(c)

Next == Click \/ Settle \/ Edit \/ WalletEvent

Spec == Init /\ [][Next]_vars

-----------------------------------------------------------------------------
(* The form filled with sampled text: a connected wallet, any sampled text   *)
(* in the three parsed fields, then clicks and settlements.                  *)

NumberSamples ==
    { <<>>, <<"0">>, <<"-","0">>, <<"0",".","0">>, <<"1">>, <<"3","0">>,
      <<"8","4","5","3">>, <<"1",".","5">>, <<"-","1">>, <<" ","7"," ">>,
      <<"a","b","c">>, <<".">>, <<"1",".","2",".","3">>, <<" ">> }

AllowanceSamples ==
    { <<>>, DEFAULT_ALLOWANCE, <<"0">>, <<"a","b","c">>, <<"1",".","5">>,
      <<" ","1","2"," ">>, <<"-","5">>, <<"+","3">>, <<" "," ">>, <<"-">>,
      <<"1"," ","2">> }

FormInit ==
    /\ address \in Addresses
    /\ isConnected = TRUE
    /\ connectedChainId = base_id
    /\ account = address
    /\ chainId \in NumberSamples
    /\ allowance \in AllowanceSamples
    /\ periodInDays \in NumberSamples
    /\ permission = Null
    /\ error = Null
    /\ loading = FALSE
    /\ inflight = <<>>
    /\ nClicks = 0
    /\ nCalls = 0
    /\ outcome = Outcome("none", Null)
    /\ lastAddress = address
    /\ lastChainId = base_id
    /\ accountEdited = FALSE
    /\ chainIdEdited = (chainId # InitialChainId(base_id))

FormNext == Click \/ Settle

FormSpec == FormInit /\ [][FormNext]_vars

\* The promise requestSpendPermission returns settles (the proviso of C8)
FairSpec == Spec /\ WF_vars(Settle)

-----------------------------------------------------------------------------
(* Claims *)

\* The button is enabled, as the claims state it
ConnectedReady == isConnected /\ account # "" /\ ~loading

\* C1: at most one requestSpendPermission call is in flight at any time,
\* whatever the order of clicks, edits, wallet events and settlements.
C1_AtMostOneInFlight == Len(inflight) <= 1

\* a second call is in flight after the first one settled, the wallet still connected
C1_Witness == Len(inflight) = 1 /\ nCalls >= 2 /\ isConnected /\ account # ""

\* C2: after the promise rejects, an error panel is shown with the rejection's
\* message when the rejection is an Error and the fixed text otherwise, and no
\* permission panel is shown.
C2_RejectionDisplayed ==
    outcome.kind = "rejected" =>
        /\ ErrorShown
        /\ error = Some(IF outcome.value.isError THEN outcome.value.message
                        ELSE "Failed to request spend permission")
        /\ ~PermissionShown

\* C3: a call is started only from a state where the wallet is connected, the
\* account field is non-empty and loading is false; in any other state a click
\* starts no call and changes nothing.
C3_CallOnlyWhenEnabled ==
    [][ /\ (nCalls' # nCalls \/ Len(inflight') > Len(inflight)) => ConnectedReady
        /\ (Click /\ ~ConnectedReady) => UNCHANGED vars ]_vars

\* a call was started and the wallet then disconnected while it is in flight
C3_Witness == nCalls >= 1 /\ ~isConnected /\ inflight # <<>>

\* the text JSON.stringify(r, null, 2) gives for each sampled response
ExpectedJson(r) ==
    IF r.signature = "0x1b" /\ r.chainId = 8453
    THEN "{\n  \"signature\": \"0x1b\",\n  \"chainId\": 8453\n}"
    ELSE "{\n  \"signature\": \"0x1c\",\n  \"chainId\": 1\n}"

\* C4: after the promise fulfils, the permission state holds the response as
\* JSON with 2-space indent, the permission panel is shown and no error panel is.
C4_FulfilmentDisplayed ==
    outcome.kind = "fulfilled" =>
        /\ permission = Some(ExpectedJson(outcome.value))
        /\ PermissionShown
        /\ ~ErrorShown

C4_Witness == outcome.kind = "fulfilled" /\ PermissionShown /\ nClicks >= 1

\* C5: the call's chainId is Number(field) when that is a non-zero number and
\* 8453 otherwise, its periodInDays is Number(field) when that is a non-zero
\* number and 0 otherwise, its allowance is 0 when the field is empty; so
\* chainId is never 0 or NaN and periodInDays is never NaN.
C5_ParsedArguments ==
    [][ nCalls' = nCalls + 1 =>
          LET a == inflight'[Len(inflight')]
              c == ToNumber(chainId)
              p == ToNumber(periodInDays)
          IN  /\ a.chainId = IF c.kind = "num" /\ c.num # 0 THEN c
                             ELSE [kind |-> "num", num |-> 8453, den |-> 1]
              /\ a.periodInDays = IF p.kind = "num" /\ p.num # 0 THEN p
                                  ELSE [kind |-> "num", num |-> 0, den |-> 1]
              /\ (allowance = <<>> => a.allowance = 0)
              /\ a.chainId.kind = "num" /\ a.chainId.num # 0
              /\ a.periodInDays.kind = "num" ]_vars

\* a call in flight whose chain-ID and period fields are not numbers and whose
\* allowance field is empty
C5_Witness ==
    /\ Len(inflight) = 1
    /\ chainId = <<"a","b","c">> /\ periodInDays = <<"1",".","2",".","3">> /\ allowance = <<>>
    /\ inflight[1].chainId.num = 8453 /\ inflight[1].periodInDays.num = 0
    /\ inflight[1].allowance = 0

\* C6: calls never outnumber accepted clicks, and a call is issued only by a
\* step that is an accepted click (one call per click, none after a settlement).
C6_NoRetries ==
    /\ [](nCalls <= nClicks)
    /\ [][nCalls' # nCalls => nCalls' = nCalls + 1 /\ nClicks' = nClicks + 1]_vars

\* one call was issued, it rejected, and nothing is in flight
C6_Witness == outcome.kind = "rejected" /\ nCalls = 1 /\ nClicks = 1 /\ inflight = <<>>

\* C7: at most one of: loading, a permission result held, an error message held.
C7_AtMostOneOf ==
    /\ ~(loading /\ permission # Null)
    /\ ~(loading /\ error # Null)
    /\ ~(permission # Null /\ error # Null)

\* a result is held after a second request, whose start cleared the first one's
C7_Witness == permission # Null /\ error = Null /\ ~loading /\ nClicks >= 2

IsIntegerLiteral(s) ==
    \E i \in 1..(Len(s) + 1), j \in 0..Len(s) :
        /\ \A k \in 1..(i - 1) : s[k] \in {" ", "\t", "\n"}
        /\ \A k \in (j + 1)..Len(s) : s[k] \in {" ", "\t", "\n"}
        /\ \/ j < i
           \/ /\ i <= j
              /\ LET b == IF s[i] \in {"+", "-"} THEN i + 1 ELSE i
                 IN  b <= j /\ \A k \in b..j : s[k] \in {"0","1","2","3","4","5","6","7","8","9"}

\* C9: an accepted click with a non-empty allowance field that is no integer
\* literal issues no call, stores and shows an error, stores no permission and
\* leaves loading false.
C9_BadAllowanceNoCall ==
    [][ (nClicks' = nClicks + 1 /\ allowance # <<>> /\ ~IsIntegerLiteral(allowance)) =>
          /\ nCalls' = nCalls
          /\ inflight' = inflight
          /\ error' # Null
          /\ ErrorShown'
          /\ permission' = Null
          /\ ~loading' ]_vars

C9_Witness ==
    /\ outcome.kind = "threw" /\ allowance = <<"1",".","5">>
    /\ ErrorShown /\ nCalls = 0 /\ ~loading

\* the text of each sampled chain id
ChainText(c) == IF c = 1 THEN <<"1">> ELSE <<"8","4","5","3">>

\* C10: unless the user typed in it since, the account field is the most recent
\* non-empty wallet address ("" if none) and the chain-ID field is the text of
\* the most recent non-zero wallet chain id ("8453" if none); a disconnect
\* changes neither field; a change to a non-empty address or a non-zero chain
\* id overwrites the field.
C10_FieldsFollowWallet ==
    /\ [](~accountEdited => account = lastAddress)
    /\ [](~chainIdEdited => chainId = ChainText(IF lastChainId # 0 THEN lastChainId ELSE 8453))
    /\ [][ /\ (address # Undefined /\ address' = Undefined) =>
                (account' = account /\ chainId' = chainId)
           /\ (address' # address /\ address' # Undefined /\ address' # "") =>
                account' = address'
           /\ (connectedChainId' # connectedChainId /\ connectedChainId' # 0) =>
                chainId' = ChainText(connectedChainId') ]_vars

\* the wallet reported chain id 0 and disconnected: the account field still
\* holds the last address, the chain-ID field holds what the user typed
C10_Witness ==
    /\ address = Undefined /\ account = lastAddress /\ account # ""
    /\ ~accountEdited /\ chainIdEdited /\ connectedChainId = 0

====
